---- MODULE Spec2Model ----
(***************************************************************************)
(* Model of the Astroport venue connector (oracle/provider/astroport.go)   *)
(* and of the cross-venue consensus function exercised by the oracle       *)
(* tests.                                                                  *)
(*                                                                         *)
(* One connector (one p.tickers map guarded by one p.mtx) is polled by the *)
(* goroutines in callers; every blocking point of Poll (the two httpPost   *)
(* calls and p.mtx.Lock) and every iteration of the pool loop is a step of *)
(* its own, so that other goroutines interleave exactly where the Go       *)
(* scheduler lets them.                                                    *)
(*                                                                         *)
(* Spec          one caller, a venue that gives any answer of the bounds   *)
(* SpecListing   one caller, a venue whose pools vary in their listing     *)
(* SpecOverlap   two overlapping callers and a reader, a steady venue      *)
(* SpecSteady    one caller and a reader, a steady venue, fair scheduling  *)
(* SpecConsensus a call of StandardDeviation on any matrix of the bounds   *)
(* SpecVWAP      a call of ComputeVWAP on any observation list of the      *)
(*               bounds                                                    *)
(***************************************************************************)
EXTENDS Integers, Sequences, FiniteSets, TLC

(***************************************************************************)
(* Bounds.                                                                 *)
(***************************************************************************)
\* time.Now() is a counter that stops advancing at MaxClock
MaxClock == 2
\* longest pool list a venue response carries
MaxPools == 2

(***************************************************************************)
(* Strings.  Symbols and addresses are Go strings; + is \o.  ToUpper and   *)
(* ToLower act letter by letter, so ToUpper(a+b) = ToUpper(a)+ToUpper(b);  *)
(* on the strings of this model they are the tables below.                 *)
(***************************************************************************)
UsdcAddr == "ibc/b3504e092456ba618cc28ac671a71fb08c6ca0fd0be7c8a5b5a3e2dd933cc9e4"

ToUpper(s) ==
    CASE s = "luna"  -> "LUNA"
      [] s = "usdc"  -> "USDC"
      [] s = "astro" -> "ASTRO"
      [] s = "uluna" -> "ULUNA"
      [] s = "terra1astro" -> "TERRA1ASTRO"
      [] s = "terra1fake"  -> "TERRA1FAKE"
      [] OTHER -> s

ToLower(s) ==
    CASE s = "LUNA"  -> "luna"
      [] s = "USDC"  -> "usdc"
      [] s = "ASTRO" -> "astro"
      [] s = "FAKE"  -> "fake"
      [] s = "ULUNA" -> "uluna"
      [] s = "TERRA1ASTRO" -> "terra1astro"
      [] s = "TERRA1FAKE"  -> "terra1fake"
      [] OTHER -> s

(***************************************************************************)
(* Decimals.  An sdk.Dec is an integer count of 10^-18 units; the model    *)
(* keeps the representation and the rounding and shortens the scale to     *)
(* DecScale units so that the products stay inside TLC's integers.         *)
(***************************************************************************)
DecScale == 100

\* floatToDec of a float64 holding a whole number of dollars
floatToDec(f) == f * DecScale

\* chopPrecisionAndRound of a non-negative number of units of the squared
\* scale: the nearest unit, a tie going to the even unit
Chop(x) ==
    LET q == x \div DecScale
        r == x % DecScale
    IN  IF 2 * r > DecScale \/ (2 * r = DecScale /\ q % 2 = 1) THEN q + 1 ELSE q

\* sdk.Dec.Quo for non-negative operands and a non-zero divisor: the dividend
\* times the scale twice, divided with truncation, then chopped
Quo(a, b) == Chop((a * DecScale * DecScale) \div b)

(***************************************************************************)
(* Configuration and the allow-list.                                       *)
(***************************************************************************)
\* the CurrencyPairs NewAstroportProvider is given
CurrencyPair(base, quote) == [Base |-> base, Quote |-> quote]
CurrencyPairs == {CurrencyPair("LUNA", "USDC"), CurrencyPair("ASTRO", "USDC")}

\* p.pairs: the keys of the configured CurrencyPairs (BASE+QUOTE, upper case)
pairs == { cp.Base \o cp.Quote : cp \in CurrencyPairs }

whitelist == ("USDC" :> UsdcAddr) @@ ("LUNA" :> "uluna")

\* the liquidity floor of the pool loop, in dollars
LiquidityFloor == 100000


(***************************************************************************)
(* What the venue may answer.  A token record is AstroportToken without    *)
(* Decimals (never read), an asset is AstroportAsset without Amount (never *)
(* read), a pool is AstroportPool.                                         *)
(***************************************************************************)
Token(sym, addr, price) == [Symbol |-> sym, Address |-> addr, Price |-> price]
Asset(sym, addr) == [Symbol |-> sym, Address |-> addr]
Pool(liq, vol, assets) == [Liquidity |-> liq, Volume |-> vol, Assets |-> assets]

\* the token lists a tokens query may decode to
TokenResponses ==
    { <<>>,
      \* the three genuine assets
      << Token("LUNA", "uluna", 3), Token("USDC", UsdcAddr, 1),
         Token("ASTRO", "terra1astro", 4) >>,
      \* a foreign contract that calls itself LUNA
      << Token("LUNA", "terra1fake", 5), Token("USDC", UsdcAddr, 1) >>,
      \* the same contract listed under a symbol of its own
      << Token("FAKE", "terra1fake", 5), Token("USDC", UsdcAddr, 1) >>,
      \* a token quoted at zero dollars
      << Token("LUNA", "uluna", 3), Token("USDC", UsdcAddr, 0) >> }

\* the pools a pools query may list
PoolUniverse ==
    { Pool(100000, 8, << Asset("LUNA", "uluna"), Asset("USDC", UsdcAddr) >>),
      Pool(100000, 8, << Asset("ASTRO", "terra1astro"), Asset("USDC", UsdcAddr) >>),
      Pool(99999, 8, << Asset("LUNA", "uluna"), Asset("USDC", UsdcAddr) >>),
      Pool(100000, 8, << Asset("LUNA", "terra1fake"), Asset("USDC", UsdcAddr) >>),
      Pool(100000, 8, << Asset("LUNA", "uluna") >>) }

RECURSIVE SeqsUpTo(_, _)
SeqsUpTo(S, n) ==
    IF n = 0 THEN { <<>> }
    ELSE LET shorter == SeqsUpTo(S, n - 1)
         IN  shorter \cup { Append(s, x) : s \in { t \in shorter : Len(t) = n - 1 }, x \in S }

\* the pool lists a pools query may decode to
PoolResponses == SeqsUpTo(PoolUniverse, MaxPools)

\* A venue that always lists the genuine assets and answers with one of four
\* pool lists: both pairs, one pair, a pool below the floor, a malformed pool.
SteadyTokenResponses ==
    { << Token("LUNA", "uluna", 3), Token("USDC", UsdcAddr, 1),
         Token("ASTRO", "terra1astro", 4) >> }

SteadyPoolResponses ==
    { << Pool(100000, 8, << Asset("LUNA", "uluna"), Asset("USDC", UsdcAddr) >>),
         Pool(100000, 8, << Asset("ASTRO", "terra1astro"), Asset("USDC", UsdcAddr) >>) >>,
      << Pool(100000, 8, << Asset("ASTRO", "terra1astro"), Asset("USDC", UsdcAddr) >>) >>,
      << Pool(99999, 8, << Asset("LUNA", "uluna"), Asset("USDC", UsdcAddr) >>) >>,
      << Pool(100000, 8, << Asset("LUNA", "uluna") >>) >> }

\* A venue that lists the genuine assets, or ASTRO under an address spelled
\* in capitals, and whose pools come in either asset order, twice for a
\* pair, for a pair that is not configured, or malformed.
ListingTokenResponses ==
    { << Token("LUNA", "uluna", 3), Token("USDC", UsdcAddr, 1),
         Token("ASTRO", "terra1astro", 4) >>,
      << Token("LUNA", "uluna", 3), Token("USDC", UsdcAddr, 1),
         Token("ASTRO", "TERRA1ASTRO", 4) >> }

ListingPoolUniverse ==
    { Pool(100000, 8, << Asset("LUNA", "uluna"), Asset("USDC", UsdcAddr) >>),
      Pool(250000, 6, << Asset("LUNA", "uluna"), Asset("USDC", UsdcAddr) >>),
      Pool(100000, 8, << Asset("USDC", UsdcAddr), Asset("LUNA", "uluna") >>),
      Pool(100000, 8, << Asset("ASTRO", "terra1astro"), Asset("LUNA", "uluna") >>),
      Pool(100000, 8, << Asset("ASTRO", "TERRA1ASTRO"), Asset("USDC", UsdcAddr) >>),
      Pool(100000, 8, << Asset("LUNA", "uluna") >>) }

ListingPoolResponses == SeqsUpTo(ListingPoolUniverse, MaxPools)

(***************************************************************************)
(* The pure parts of Poll.                                                 *)
(***************************************************************************)
\* a map with one more assignment m[k] = v
MapPut(m, k, v) == (k :> v) @@ m

\* the test of the token loop: a record whose symbol is on the allow-list
\* under another address is skipped
Skipped(token) ==
    /\ token.Symbol \in DOMAIN whitelist
    /\ token.Address # whitelist[token.Symbol]

\* the token loop: tokens[token.Address] = token for every record not skipped,
\* a later record of the same address replacing an earlier one
RECURSIVE BuildTokens(_)
BuildTokens(list) ==
    IF list = <<>> THEN <<>>
    ELSE LET front == BuildTokens(SubSeq(list, 1, Len(list) - 1))
             token == list[Len(list)]
         IN  IF Skipped(token) THEN front ELSE MapPut(front, token.Address, token)

\* a floor that also rejects a pool standing exactly on it
BelowOrAtFloor(pool) == pool.Liquidity <= LiquidityFloor

\* "ignore pools with a liquidity < $ 100k"
BelowFloor(pool) == pool.Liquidity < LiquidityFloor

\* pool.Assets[0] and pool.Assets[1] index out of range
IndexPanics(pool) == Len(pool.Assets) < 2

\* a getPoolAssets that returns the assets as the pool lists them, whichever
\* ordering matched
getPoolAssetsAsListed(pool) ==
    LET a1 == pool.Assets[1]
        a2 == pool.Assets[2]
    IN  IF ToUpper(a1.Symbol) \o ToUpper(a2.Symbol) \in pairs
        THEN [a1 |-> a1, a2 |-> a2, ok |-> TRUE]
        ELSE IF ToUpper(a2.Symbol) \o ToUpper(a1.Symbol) \in pairs
        THEN [a1 |-> a1, a2 |-> a2, ok |-> TRUE]
        ELSE [a1 |-> Asset("", ""), a2 |-> Asset("", ""), ok |-> FALSE]

\* getPoolAssets for a pool of at least two assets
getPoolAssets(pool) ==
    LET a1 == pool.Assets[1]
        a2 == pool.Assets[2]
    IN  IF ToUpper(a1.Symbol) \o ToUpper(a2.Symbol) \in pairs
        THEN [a1 |-> a1, a2 |-> a2, ok |-> TRUE]
        ELSE IF ToUpper(a2.Symbol) \o ToUpper(a1.Symbol) \in pairs
        THEN [a1 |-> a2, a2 |-> a1, ok |-> TRUE]
        ELSE [a1 |-> Asset("", ""), a2 |-> Asset("", ""), ok |-> FALSE]

TickerPrice(price, volume, time) == [Price |-> price, Volume |-> volume, Time |-> time]

\* One iteration of the pool loop, with the identity mapping toks and the
\* cycle's timestamp: the pool is skipped (a continue), the iteration panics
\* (an index out of range in getPoolAssets, a division by zero in Quo), or
\* p.tickers[symbol] is assigned.
PoolOutcome(toks, pool, time) ==
    IF BelowFloor(pool) THEN [kind |-> "skip"]
    ELSE IF IndexPanics(pool) THEN [kind |-> "panic"]
    ELSE LET r == getPoolAssets(pool)
             k1 == ToLower(r.a1.Address)
             k2 == ToLower(r.a2.Address)
         IN  IF ~r.ok THEN [kind |-> "skip"]
             ELSE IF k1 \notin DOMAIN toks THEN [kind |-> "skip"]
             ELSE IF k2 \notin DOMAIN toks THEN [kind |-> "skip"]
             ELSE LET symbol == ToUpper(r.a1.Symbol) \o ToUpper(r.a2.Symbol)
                      price1 == floatToDec(toks[k1].Price)
                      price2 == floatToDec(toks[k2].Price)
                  IN  IF price2 = 0 \/ price1 = 0 THEN [kind |-> "panic"]
                      ELSE [kind   |-> "store",
                            symbol |-> symbol,
                            ticker |-> TickerPrice(Quo(price1, price2),
                                                   Quo(floatToDec(pool.Volume), price1),
                                                   time)]

(***************************************************************************)
(* Cross-venue consensus: oracle.StandardDeviation, as the oracle tests    *)
(* call it.  The matrix maps a provider name to a map from symbol to       *)
(* price; a nil matrix has no rows and ranges like an empty one.           *)
(***************************************************************************)
NilMatrix == [nil |-> TRUE, rows |-> <<>>]

ProviderNames == {"binance", "kraken", "osmosis", "astroport"}
Bases == {"ATOM", "LUNA"}
\* the prices a venue may report, as decimals
BasePrices == {floatToDec(1), floatToDec(2)}

\* the fewest reporting venues for which a deviation is computed
MinQuorum == 3

\* every map from a subset of D to R
Maps(D, R) == UNION { [S -> R] : S \in SUBSET D }

Matrices ==
    {NilMatrix} \cup
    { [nil |-> FALSE, rows |-> m] : m \in Maps(ProviderNames, Maps(Bases, BasePrices)) }

Providers(prices) == DOMAIN prices.rows

\* the providers whose map holds a price for base
Reporters(prices, base) ==
    { v \in Providers(prices) : base \in DOMAIN prices.rows[v] }

\* the symbols that occur in some provider's map: the keys of priceSums
Reported(prices) == UNION { DOMAIN prices.rows[v] : v \in Providers(prices) }

RECURSIVE SumOf(_, _)
SumOf(f, S) ==
    IF S = {} THEN 0
    ELSE LET x == CHOOSE y \in S : TRUE IN f[x] + SumOf(f, S \ {x})

\* sdk.Dec.Mul for non-negative operands: the product, chopped
Mul(a, b) == Chop(a * b)

\* big.Int.Quo: the quotient truncated toward zero
TQuo(a, b) == IF a >= 0 THEN a \div b ELSE -((-a) \div b)

\* the most steps sdk.Dec.ApproxSqrt takes
MaxApproxRootIterations == 100

\* the loop of ApproxSqrt: Newton's method until the step is at most one unit
RECURSIVE ApproxRootLoop(_, _, _, _)
ApproxRootLoop(d, guess, delta, iter) ==
    IF (IF delta >= 0 THEN delta ELSE -delta) > 1 /\ iter < MaxApproxRootIterations
    THEN LET prev == IF guess = 0 THEN 1 ELSE guess
             step == TQuo(Quo(d, prev) - guess, 2)
         IN  ApproxRootLoop(d, guess + step, step, iter + 1)
    ELSE guess

\* sdk.Dec.ApproxSqrt of a non-negative decimal
ApproxSqrt(d) ==
    IF d = 0 \/ d = DecScale THEN d
    ELSE ApproxRootLoop(d, DecScale, DecScale, 0)

\* a quorum that counts the venues of the matrix, not those that report base
HasQuorumOfVenues(prices, base) == Cardinality(Providers(prices)) >= MinQuorum

\* the symbols that get a mean and a deviation
HasQuorum(prices, base) == Cardinality(Reporters(prices, base)) >= MinQuorum

\* a deviation with the divisor of a sample, n - 1
SampleDeviationOf(prices, base) ==
    LET from == Reporters(prices, base)
        sum == SumOf([v \in from |-> prices.rows[v][base]], from)
        mean == sum \div Cardinality(from)
        diff(v) == IF prices.rows[v][base] >= mean THEN prices.rows[v][base] - mean
                   ELSE mean - prices.rows[v][base]
        varianceSum == SumOf([v \in from |-> Mul(diff(v), diff(v))], from)
    IN  ApproxSqrt(varianceSum \div (Cardinality(from) - 1))

MeanOf(prices, base) ==
    LET from == Reporters(prices, base)
    IN  SumOf([v \in from |-> prices.rows[v][base]], from) \div Cardinality(from)

DeviationOf(prices, base) ==
    LET from == Reporters(prices, base)
        mean == MeanOf(prices, base)
        diff(v) == IF prices.rows[v][base] >= mean THEN prices.rows[v][base] - mean
                   ELSE mean - prices.rows[v][base]
        varianceSum == SumOf([v \in from |-> Mul(diff(v), diff(v))], from)
    IN  ApproxSqrt(varianceSum \div Cardinality(from))

\* StandardDeviation(prices): the deviations, the means and the error
StandardDeviation(prices) ==
    LET keys == { base \in Reported(prices) : HasQuorum(prices, base) }
    IN  [deviations |-> [base \in keys |-> DeviationOf(prices, base)],
         means      |-> [base \in keys |-> MeanOf(prices, base)],
         err        |-> "nil"]

(***************************************************************************)
(* Aggregation of one pair's observations: oracle.ComputeVWAP, as the      *)
(* oracle tests call it.  The argument is a slice of TickerPrice (Time is  *)
(* not read); a nil slice has no elements and ranges like an empty one.    *)
(* The result is a decimal and an error; sdk.Dec{} is the decimal that     *)
(* holds no number.                                                        *)
(***************************************************************************)
\* longest observation list a caller passes
MaxObs == 3

Observation(price, volume) == [Price |-> price, Volume |-> volume]

\* the prices and volumes of an observation, in units of the decimal scale
ObsPrices == {1, 113, 2821}
ObsVolumes == {0, 10, 275}

Observations == { Observation(p, v) : p \in ObsPrices, v \in ObsVolumes }

NilObservations == [nil |-> TRUE, list |-> <<>>]

ObservationLists ==
    {NilObservations} \cup
    { [nil |-> FALSE, list |-> l] : l \in SeqsUpTo(Observations, MaxObs) }

Dec(units) == [set |-> TRUE, units |-> units]
NoDec == [set |-> FALSE, units |-> 0]

\* the loop over the slice: weightedPrice += Price.Mul(Volume)
RECURSIVE WeightedPrice(_)
WeightedPrice(list) ==
    IF list = <<>> THEN 0
    ELSE LET n == Len(list)
         IN  WeightedPrice(SubSeq(list, 1, n - 1)) + Mul(list[n].Price, list[n].Volume)

\* the loop over the slice: volumeSum += Volume
RECURSIVE VolumeSum(_)
VolumeSum(list) ==
    IF list = <<>> THEN 0
    ELSE LET n == Len(list)
         IN  VolumeSum(SubSeq(list, 1, n - 1)) + list[n].Volume

\* a loop that stops one observation short of the end of a longer slice
AllButLast(list) == IF Len(list) > 1 THEN SubSeq(list, 1, Len(list) - 1) ELSE list

ComputeVWAPShortLoop(tickers) ==
    IF VolumeSum(AllButLast(tickers.list)) = 0
    THEN [vwap |-> NoDec, err |-> "unable to divide by zero"]
    ELSE [vwap |-> Dec(Quo(WeightedPrice(AllButLast(tickers.list)),
                           VolumeSum(AllButLast(tickers.list)))),
          err  |-> "nil"]

\* a zero total volume answered with the zero decimal and no error
ComputeVWAPZeroDefault(tickers) ==
    IF VolumeSum(tickers.list) = 0
    THEN [vwap |-> Dec(0), err |-> "nil"]
    ELSE [vwap |-> Dec(Quo(WeightedPrice(tickers.list), VolumeSum(tickers.list))),
          err  |-> "nil"]

\* ComputeVWAP(tickers): the weighted price over the volume, or an error
ComputeVWAP(tickers) ==
    IF VolumeSum(tickers.list) = 0
    THEN [vwap |-> NoDec, err |-> "unable to divide by zero"]
    ELSE [vwap |-> Dec(Quo(WeightedPrice(tickers.list), VolumeSum(tickers.list))),
          err  |-> "nil"]

(***************************************************************************)
(* State.                                                                  *)
(***************************************************************************)
\* the goroutines that call Poll on the connector
Pollers == {"p1", "p2"}

VARIABLES
    consensus,      \* a call of StandardDeviation: its argument, then its results
    callers,        \* the goroutines that do call Poll
    venue,          \* which answers the venue gives: "any", "listing" or "steady"
    tickers,        \* p.tickers: symbol -> TickerPrice
    mtx,            \* p.mtx: "free", or the goroutine that holds it
    clock,          \* what time.Now() returns
    crashed,        \* the process has died of a panic
    pc,             \* where each poller stands
    tokensResponse, \* Poll's local: the decoded token list
    tokens,         \* Poll's local: the identity mapping
    poolsResponse,  \* Poll's local: the decoded pool list
    idx,            \* Poll's local: position of the pool loop
    timestamp,      \* Poll's local: the cycle's time.Now()
    snapshot,       \* the reader's last copy of the store
    written,        \* history: the symbols each poller assigned in its latest call
    prev,           \* history: how the call before each poller's latest call ended
    boundary        \* history: p.tickers when a poller last released p.mtx

vars == << consensus, callers, venue, tickers, mtx, clock, crashed, pc, tokensResponse, tokens,
           poolsResponse, idx, timestamp, snapshot, written, prev, boundary >>

locals == << tokensResponse, tokens, poolsResponse, idx, timestamp >>

\* what no step of Poll or of the reader changes
env == << consensus, callers, venue >>

TokenAnswers ==
    CASE venue = "any" -> TokenResponses
      [] venue = "listing" -> ListingTokenResponses
      [] OTHER -> SteadyTokenResponses
PoolAnswers ==
    CASE venue = "any" -> PoolResponses
      [] venue = "listing" -> ListingPoolResponses
      [] OTHER -> SteadyPoolResponses

\* the state NewAstroportProvider leaves: an empty store, an unlocked mutex
Start ==
    /\ tickers = <<>>
    /\ mtx = "free"
    /\ clock = 1
    /\ crashed = FALSE
    /\ pc = [p \in Pollers |-> "idle"]
    /\ tokensResponse = [p \in Pollers |-> <<>>]
    /\ tokens = [p \in Pollers |-> <<>>]
    /\ poolsResponse = [p \in Pollers |-> <<>>]
    /\ idx = [p \in Pollers |-> 0]
    /\ timestamp = [p \in Pollers |-> 0]
    /\ snapshot = <<>>
    /\ written = [p \in Pollers |-> {}]
    /\ prev = [p \in Pollers |-> "idle"]
    /\ boundary = <<>>

(***************************************************************************)
(* Poll.  json.Marshal of the two constant queries cannot fail and has no  *)
(* step.  pc: "idle" before the first call, "failed" after a call returned *)
(* an error, "done" after a call returned nil, "fetchTokens" and           *)
(* "fetchPools" inside the two httpPost calls, "lock" at p.mtx.Lock(),     *)
(* "loop" inside the pool loop, "panicked" after a panic.                  *)
(***************************************************************************)
Reset(p) ==
    /\ tokensResponse' = [tokensResponse EXCEPT ![p] = <<>>]
    /\ tokens' = [tokens EXCEPT ![p] = <<>>]
    /\ poolsResponse' = [poolsResponse EXCEPT ![p] = <<>>]
    /\ idx' = [idx EXCEPT ![p] = 0]
    /\ timestamp' = [timestamp EXCEPT ![p] = 0]

\* a Poll that locks p.mtx on entry, before its fetches
PollStartLocked(p) ==
    /\ ~crashed
    /\ p \in callers
    /\ pc[p] \in {"idle", "failed", "done"}
    /\ mtx = "free"
    /\ mtx' = p
    /\ pc' = [pc EXCEPT ![p] = "fetchTokens"]
    /\ written' = [written EXCEPT ![p] = {}]
    /\ prev' = [prev EXCEPT ![p] = pc[p]]
    /\ Reset(p)
    /\ UNCHANGED << env, tickers, clock, crashed, snapshot, boundary >>

\* a caller enters Poll and posts the token query
PollStart(p) ==
    /\ ~crashed
    /\ p \in callers
    /\ pc[p] \in {"idle", "failed", "done"}
    /\ pc' = [pc EXCEPT ![p] = "fetchTokens"]
    /\ written' = [written EXCEPT ![p] = {}]
    /\ prev' = [prev EXCEPT ![p] = pc[p]]
    /\ Reset(p)
    /\ UNCHANGED << env, tickers, mtx, clock, crashed, snapshot, boundary >>

\* the token query fails in httpPost or in json.Unmarshal: return err
FetchTokensErr(p) ==
    /\ ~crashed
    /\ pc[p] = "fetchTokens"
    /\ pc' = [pc EXCEPT ![p] = "failed"]
    /\ UNCHANGED << env, tickers, mtx, clock, crashed, locals, snapshot, written, prev, boundary >>

\* a Poll that locks p.mtx between its two fetches and unlocks only at its end
FetchTokensOkLocking(p) ==
    /\ ~crashed
    /\ pc[p] = "fetchTokens"
    /\ mtx = "free"
    /\ mtx' = p
    /\ \E list \in TokenAnswers :
          tokensResponse' = [tokensResponse EXCEPT ![p] = list]
    /\ pc' = [pc EXCEPT ![p] = "fetchPools"]
    /\ UNCHANGED << env, tickers, clock, crashed, tokens, poolsResponse, idx,
                    timestamp, snapshot, written, prev, boundary >>

\* the token query is answered and decoded; the pool query is posted
FetchTokensOk(p) ==
    /\ ~crashed
    /\ pc[p] = "fetchTokens"
    /\ \E list \in TokenAnswers :
          tokensResponse' = [tokensResponse EXCEPT ![p] = list]
    /\ pc' = [pc EXCEPT ![p] = "fetchPools"]
    /\ UNCHANGED << env, tickers, mtx, clock, crashed, tokens, poolsResponse, idx,
                    timestamp, snapshot, written, prev, boundary >>

\* a failed pool query that empties the store before it returns err
FetchPoolsErrClears(p) ==
    /\ ~crashed
    /\ pc[p] = "fetchPools"
    /\ pc' = [pc EXCEPT ![p] = "failed"]
    /\ tickers' = <<>>
    /\ UNCHANGED << env, mtx, clock, crashed, locals, snapshot, written, prev, boundary >>

\* the pool query fails in httpPost or in json.Unmarshal: return err
FetchPoolsErr(p) ==
    /\ ~crashed
    /\ pc[p] = "fetchPools"
    /\ pc' = [pc EXCEPT ![p] = "failed"]
    /\ UNCHANGED << env, tickers, mtx, clock, crashed, locals, snapshot, written, prev, boundary >>

\* the pool query is answered and decoded, the identity mapping is built, and
\* the caller arrives at p.mtx.Lock()
FetchPoolsOk(p) ==
    /\ ~crashed
    /\ pc[p] = "fetchPools"
    /\ \E list \in PoolAnswers :
          poolsResponse' = [poolsResponse EXCEPT ![p] = list]
    /\ tokens' = [tokens EXCEPT ![p] = BuildTokens(tokensResponse[p])]
    /\ tokensResponse' = [tokensResponse EXCEPT ![p] = <<>>]
    /\ pc' = [pc EXCEPT ![p] = "lock"]
    /\ UNCHANGED << env, tickers, mtx, clock, crashed, idx, timestamp, snapshot,
                    written, prev, boundary >>

\* a Poll that goes on to its loop without locking p.mtx
LockSkipped(p) ==
    /\ ~crashed
    /\ pc[p] = "lock"
    /\ timestamp' = [timestamp EXCEPT ![p] = clock]
    /\ idx' = [idx EXCEPT ![p] = 1]
    /\ pc' = [pc EXCEPT ![p] = "loop"]
    /\ UNCHANGED << env, tickers, mtx, clock, crashed, tokensResponse, tokens,
                    poolsResponse, snapshot, written, prev, boundary >>

\* a Poll that starts its critical section from an empty store
LockReplacing(p) ==
    /\ ~crashed
    /\ pc[p] = "lock"
    /\ mtx = "free"
    /\ mtx' = p
    /\ tickers' = <<>>
    /\ timestamp' = [timestamp EXCEPT ![p] = clock]
    /\ idx' = [idx EXCEPT ![p] = 1]
    /\ pc' = [pc EXCEPT ![p] = "loop"]
    /\ UNCHANGED << env, clock, crashed, tokensResponse, tokens, poolsResponse,
                    snapshot, written, prev, boundary >>

\* p.mtx.Lock() returns, the unlock is deferred, timestamp := time.Now()
Lock(p) ==
    /\ ~crashed
    /\ pc[p] = "lock"
    /\ mtx = "free"
    /\ mtx' = p
    /\ timestamp' = [timestamp EXCEPT ![p] = clock]
    /\ idx' = [idx EXCEPT ![p] = 1]
    /\ pc' = [pc EXCEPT ![p] = "loop"]
    /\ UNCHANGED << env, tickers, clock, crashed, tokensResponse, tokens, poolsResponse,
                    snapshot, written, prev, boundary >>

\* a Time read from the clock anew for every entry
NowTime(p) == clock

\* the Time a cycle stores with its entries
CycleTime(p) == timestamp[p]

\* the iteration the pool loop of p is about to run
Outcome(p) == PoolOutcome(tokens[p], poolsResponse[p][idx[p]], CycleTime(p))

InLoop(p) ==
    /\ ~crashed
    /\ pc[p] = "loop"
    /\ idx[p] <= Len(poolsResponse[p])

\* an iteration that ends in a continue
LoopSkip(p) ==
    /\ InLoop(p)
    /\ Outcome(p).kind = "skip"
    /\ idx' = [idx EXCEPT ![p] = @ + 1]
    /\ UNCHANGED << env, tickers, mtx, clock, crashed, pc, tokensResponse, tokens,
                    poolsResponse, timestamp, snapshot, written, prev, boundary >>

\* an iteration that leaves alone a pair the cycle has already assigned
LoopStoreFirst(p) ==
    /\ InLoop(p)
    /\ Outcome(p).kind = "store"
    /\ tickers' = IF Outcome(p).symbol \in written[p] THEN tickers
                  ELSE MapPut(tickers, Outcome(p).symbol, Outcome(p).ticker)
    /\ written' = [written EXCEPT ![p] = @ \cup {Outcome(p).symbol}]
    /\ idx' = [idx EXCEPT ![p] = @ + 1]
    /\ UNCHANGED << env, mtx, clock, crashed, pc, tokensResponse, tokens,
                    poolsResponse, timestamp, snapshot, prev, boundary >>

\* an iteration that assigns p.tickers[symbol]
LoopStore(p) ==
    /\ InLoop(p)
    /\ Outcome(p).kind = "store"
    /\ tickers' = MapPut(tickers, Outcome(p).symbol, Outcome(p).ticker)
    /\ written' = [written EXCEPT ![p] = @ \cup {Outcome(p).symbol}]
    /\ idx' = [idx EXCEPT ![p] = @ + 1]
    /\ UNCHANGED << env, mtx, clock, crashed, pc, tokensResponse, tokens,
                    poolsResponse, timestamp, snapshot, prev, boundary >>

\* an iteration that panics: the deferred Unlock runs, nothing recovers, and
\* the Go runtime ends the process
LoopPanic(p) ==
    /\ InLoop(p)
    /\ Outcome(p).kind = "panic"
    /\ mtx' = "free"
    /\ crashed' = TRUE
    /\ pc' = [pc EXCEPT ![p] = "panicked"]
    /\ boundary' = tickers
    /\ UNCHANGED << env, tickers, clock, locals, snapshot, written, prev >>

\* the loop is over: return nil, and the deferred Unlock runs
Return(p) ==
    /\ ~crashed
    /\ pc[p] = "loop"
    /\ idx[p] > Len(poolsResponse[p])
    /\ mtx' = "free"
    /\ pc' = [pc EXCEPT ![p] = "done"]
    /\ boundary' = tickers
    /\ Reset(p)
    /\ UNCHANGED << env, tickers, clock, crashed, snapshot, written, prev >>

\* time passes
Tick ==
    /\ ~crashed
    /\ clock < MaxClock
    /\ clock' = clock + 1
    /\ UNCHANGED << env, tickers, mtx, crashed, pc, locals, snapshot, written, prev, boundary >>

\* a reader of the store acquires p.mtx
ReaderLock ==
    /\ ~crashed
    /\ mtx = "free"
    /\ mtx' = "reader"
    /\ UNCHANGED << env, tickers, clock, crashed, pc, locals, snapshot, written, prev, boundary >>

\* the reader copies p.tickers and releases p.mtx
ReadSnapshot ==
    /\ ~crashed
    /\ mtx = "reader"
    /\ snapshot' = tickers
    /\ mtx' = "free"
    /\ UNCHANGED << env, tickers, clock, crashed, pc, locals, written, prev, boundary >>

\* the steps of the callers of Poll
PollNext ==
    \/ \E p \in Pollers :
          \/ PollStart(p)
          \/ FetchTokensErr(p)
          \/ FetchTokensOk(p)
          \/ FetchPoolsErr(p)
          \/ FetchPoolsOk(p)
          \/ Lock(p)
          \/ LoopSkip(p)
          \/ LoopStore(p)
          \/ LoopPanic(p)
          \/ Return(p)
    \/ Tick

\* the callers of Poll and a reader of the store
Next ==
    \/ PollNext
    \/ ReaderLock
    \/ ReadSnapshot

NoConsensus == [stage |-> "none"]

\* The scheduler of NewAstroportProvider is the only caller and the venue
\* gives any answer; the store is looked at between the steps, no reader
\* goroutine takes part.
Init == Start /\ callers = {"p1"} /\ venue = "any" /\ consensus = NoConsensus

Spec == Init /\ [][PollNext]_vars

\* The scheduler alone against a venue whose pools vary in their listing.
InitListing ==
    Start /\ callers = {"p1"} /\ venue = "listing" /\ consensus = NoConsensus

SpecListing == InitListing /\ [][PollNext]_vars

\* a second goroutine calls Poll as well, and a reader copies the store; a
\* steady venue
InitOverlap ==
    Start /\ callers = Pollers /\ venue = "steady" /\ consensus = NoConsensus

SpecOverlap == InitOverlap /\ [][Next]_vars

\* The scheduler alone against a steady venue, with the scheduling Go gives:
\* a runnable goroutine runs (the loop, the return and the reader's unlock
\* are taken), and sync.Mutex hands the lock to a waiter that keeps waiting.
\* Nothing makes a fetch return.
InitSteady ==
    Start /\ callers = {"p1"} /\ venue = "steady" /\ consensus = NoConsensus

Fairness ==
    /\ WF_vars(ReadSnapshot)
    /\ \A p \in Pollers :
          /\ SF_vars(Lock(p))
          /\ WF_vars(LoopSkip(p) \/ LoopStore(p) \/ LoopPanic(p) \/ Return(p))

SpecSteady == InitSteady /\ [][Next]_vars /\ Fairness

(***************************************************************************)
(* A caller of StandardDeviation: any matrix goes in, the results come     *)
(* back.  No connector takes part.                                         *)
(***************************************************************************)
InitConsensus ==
    /\ Start /\ callers = {} /\ venue = "steady"
    /\ \E m \in Matrices : consensus = [stage |-> "called", prices |-> m]

CallStandardDeviation ==
    /\ consensus.stage = "called"
    /\ consensus' = [stage  |-> "returned",
                     prices |-> consensus.prices,
                     result |-> StandardDeviation(consensus.prices)]
    /\ UNCHANGED << callers, venue, tickers, mtx, clock, crashed, pc, locals,
                    snapshot, written, prev, boundary >>

NextConsensus == CallStandardDeviation

SpecConsensus == InitConsensus /\ [][NextConsensus]_vars

(***************************************************************************)
(* A caller of ComputeVWAP: any observation list goes in, the result comes *)
(* back.  No connector takes part.                                         *)
(***************************************************************************)
InitVWAP ==
    /\ Start /\ callers = {} /\ venue = "steady"
    /\ \E l \in ObservationLists : consensus = [stage |-> "vwapCalled", tickers |-> l]

CallComputeVWAP ==
    /\ consensus.stage = "vwapCalled"
    /\ consensus' = [stage   |-> "vwapReturned",
                     tickers |-> consensus.tickers,
                     result  |-> ComputeVWAP(consensus.tickers)]
    /\ UNCHANGED << callers, venue, tickers, mtx, clock, crashed, pc, locals,
                    snapshot, written, prev, boundary >>

NextVWAP == CallComputeVWAP

SpecVWAP == InitVWAP /\ [][NextVWAP]_vars

(***************************************************************************)
(* Claims.                                                                 *)
(***************************************************************************)
Fetching(p) == pc[p] \in {"fetchTokens", "fetchPools"}

\* C1: a Poll whose token fetch or pool fetch fails returns an error without
\* having assigned any entry, and the step that returns the error leaves
\* p.tickers as it was, also when only the second fetch failed.
C1_FailedFetchKeepsStore ==
    [][\A p \in Pollers :
          (Fetching(p) /\ pc'[p] # pc[p])
             => \/ pc[p] = "fetchTokens" /\ pc'[p] = "fetchPools" /\ tickers' = tickers
                \/ pc[p] = "fetchPools" /\ pc'[p] = "lock" /\ tickers' = tickers
                \/ pc'[p] = "failed" /\ tickers' = tickers /\ written'[p] = {}]_vars

\* a Poll has returned an error after its first fetch succeeded, with the
\* entries of an earlier cycle in the store
C1_Witness ==
    \E p \in Pollers :
       /\ pc[p] = "failed"
       /\ tokensResponse[p] # <<>>
       /\ DOMAIN tickers # {}

\* an asset that carries an allow-listed symbol under another address
Spoofs(asset) ==
    /\ asset.Symbol \in DOMAIN whitelist
    /\ ToLower(asset.Address) # whitelist[asset.Symbol]

SpoofedPool(pool) == \E i \in 1..Len(pool.Assets) : Spoofs(pool.Assets[i])

\* C2: an iteration over a pool with a spoofed asset never assigns a store
\* entry.
C2_SpoofedPoolNeverStored ==
    [][\A p \in Pollers :
          (InLoop(p) /\ SpoofedPool(poolsResponse[p][idx[p]])) => tickers' = tickers]_vars

\* the venues that report base, counted from the matrix itself
ReportCount(m, base) ==
    IF m.nil THEN 0
    ELSE Cardinality({ v \in DOMAIN m.rows : base \in DOMAIN m.rows[v] })

\* C3: StandardDeviation returns no error, and a symbol is a key of the means
\* and of the deviations exactly when at least 3 venues report it; a nil or
\* empty matrix gives two empty maps.
C3_QuorumDecidesKeys ==
    consensus.stage = "returned" =>
       LET m == consensus.prices
           r == consensus.result
       IN  /\ r.err = "nil"
           /\ \A base \in Bases :
                 /\ base \in DOMAIN r.means <=> ReportCount(m, base) >= 3
                 /\ base \in DOMAIN r.deviations <=> ReportCount(m, base) >= 3
           /\ DOMAIN r.means \subseteq Bases
           /\ DOMAIN r.deviations \subseteq Bases
           /\ (m.nil \/ m.rows = <<>>) => (r.means = <<>> /\ r.deviations = <<>>)

\* three venues report ATOM, two of them report LUNA: ATOM is a key, LUNA is not
C3_Witness ==
    /\ consensus.stage = "returned"
    /\ ReportCount(consensus.prices, "ATOM") = 3
    /\ ReportCount(consensus.prices, "LUNA") = 2
    /\ DOMAIN consensus.result.means = {"ATOM"}

\* C4: what a reader copies under p.mtx is the store as a cycle boundary left
\* it: every cycle is in the copy with all of its assignments or with none.
C4_ReaderSeesWholeCycles == [][ReadSnapshot => snapshot' = boundary]_vars

\* the reader holds a copy with both pairs while a later cycle is half way
\* through its assignments
C4_Witness ==
    \E p \in Pollers :
       /\ pc[p] = "loop"
       /\ written[p] # {}
       /\ idx[p] <= Len(poolsResponse[p])
       /\ DOMAIN snapshot = pairs
       /\ snapshot # tickers

\* C5: the entries a cycle has assigned all carry the timestamp the cycle
\* took once, after it locked.
C5_OneTimePerCycle ==
    \A p \in Pollers :
       pc[p] = "loop" =>
          \A k \in written[p] : k \in DOMAIN tickers /\ tickers[k].Time = timestamp[p]

\* a cycle has assigned two pairs and the clock moved on while it did
C5_Witness ==
    \E p \in Pollers :
       /\ pc[p] = "loop"
       /\ Cardinality(written[p]) = 2
       /\ clock > timestamp[p]

\* C6: no Poll ends in a panic.
C6_PollNeverPanics == \A p \in Pollers : pc[p] # "panicked"

\* C7: a Poll inside httpPost does not hold p.mtx.
C7_NoLockWhileFetching == \A p \in Pollers : Fetching(p) => mtx # p

\* a reader holds p.mtx while one Poll is inside its second httpPost and
\* another inside its first
C7_Witness ==
    \E p \in Pollers, q \in Pollers :
       /\ pc[p] = "fetchPools"
       /\ pc[q] = "fetchTokens"
       /\ mtx = "reader"

\* C8: a Poll that returned an error holds no lock; a Poll whose two fetches
\* succeeded gets the lock and comes to the end of its loop; and the pairs a
\* Poll that returned nil assigned are in the store.
C8_SelfHealing ==
    \A p \in Pollers :
       /\ [](pc[p] = "failed" => mtx # p)
       /\ (pc[p] = "lock") ~> (pc[p] = "loop")
       /\ (pc[p] = "loop") ~> (pc[p] \in {"done", "panicked"})
       /\ [](pc[p] = "done" => written[p] \subseteq DOMAIN tickers)

\* the call after a failed call has returned nil and has assigned a pair
C8_Witness ==
    \E p \in Pollers :
       /\ prev[p] = "failed"
       /\ pc[p] = "done"
       /\ written[p] # {}

\* C9: an iteration over a pool with less than 100000 of liquidity leaves the
\* store as it was; over a pool with exactly 100000 it does what it does
\* for the same pool with more liquidity.
C9_LiquidityFloor ==
    [][\A p \in Pollers :
          InLoop(p) =>
             LET pool == poolsResponse[p][idx[p]]
             IN  /\ pool.Liquidity < 100000 => tickers' = tickers
                 /\ pool.Liquidity = 100000 =>
                       PoolOutcome(tokens[p], pool, timestamp[p])
                          = PoolOutcome(tokens[p], [pool EXCEPT !.Liquidity = 100001],
                                        timestamp[p])]_vars

\* a pool with exactly 100000 of liquidity has been stored
C9_Witness ==
    \E p \in Pollers :
       /\ pc[p] = "loop"
       /\ idx[p] = 2
       /\ poolsResponse[p][1].Liquidity = 100000
       /\ written[p] # {}

\* C10: no step removes an entry; a step changes an entry only by assigning
\* the pair the running iteration resolves; and inside a cycle every entry of
\* a pair the cycle has not assigned is as the cycle found it.
C10_OnlyResolvedPairsChange ==
    /\ [][\A k \in DOMAIN tickers :
             /\ k \in DOMAIN tickers'
             /\ tickers'[k] # tickers[k] =>
                   \E p \in Pollers :
                      /\ InLoop(p)
                      /\ Outcome(p).kind = "store"
                      /\ Outcome(p).symbol = k]_vars
    /\ [](\A p \in Pollers :
             pc[p] = "loop" =>
                \A k \in DOMAIN boundary \ written[p] :
                   k \in DOMAIN tickers /\ tickers[k] = boundary[k])

\* a cycle that resolved one pair has ended, and the other pair still has
\* the older entry of an earlier cycle
C10_Witness ==
    \E p \in Pollers :
       /\ pc[p] = "done"
       /\ written[p] = {"ASTROUSDC"}
       /\ "LUNAUSDC" \in DOMAIN tickers
       /\ tickers["LUNAUSDC"].Time < tickers["ASTROUSDC"].Time

\* every arrangement of the elements of a sequence
RECURSIVE Arrangements(_)
Arrangements(list) ==
    IF list = <<>> THEN { <<>> }
    ELSE UNION { { << list[i] >> \o rest :
                     rest \in Arrangements([j \in 1..(Len(list) - 1) |->
                                               IF j < i THEN list[j] ELSE list[j + 1]]) }
                 : i \in 1..Len(list) }

VWAPReturned == consensus.stage = "vwapReturned"

\* C11: for a non-empty observation list of positive total volume, the
\* value ComputeVWAP returned is the value it returns for every permutation
\* of the list.
C11_VWAPOrderInvariant ==
    (VWAPReturned /\ VolumeSum(consensus.tickers.list) > 0)
       => \A l \in Arrangements(consensus.tickers.list) :
             ComputeVWAP([nil |-> FALSE, list |-> l]) = consensus.result

\* a list of three observations that differ in price and in volume, two of
\* them rounded in the product, has been aggregated
C11_Witness ==
    /\ VWAPReturned
    /\ consensus.tickers.list =
          << Observation(113, 10), Observation(2821, 275), Observation(1, 10) >>
    /\ consensus.result.err = "nil"

\* C12: ComputeVWAP of a single observation of positive volume returns the
\* observation's price and no error.
C12_SingleObservationIsPrice ==
    (/\ VWAPReturned
     /\ Len(consensus.tickers.list) = 1
     /\ consensus.tickers.list[1].Volume > 0)
       => consensus.result = [vwap |-> Dec(consensus.tickers.list[1].Price), err |-> "nil"]

PriceSum(m, base) ==
    LET from == { v \in DOMAIN m.rows : base \in DOMAIN m.rows[v] }
    IN  SumOf([v \in from |-> m.rows[v][base]], from)

\* the squares of the distances of those prices from mean, summed
SquareSum(m, base, mean) ==
    LET from == { v \in DOMAIN m.rows : base \in DOMAIN m.rows[v] }
    IN  SumOf([v \in from |-> (m.rows[v][base] - mean) * (m.rows[v][base] - mean)], from)

\* C14: for a symbol that n >= 3 venues report, the mean is the sum of the
\* prices of exactly those n venues divided by n (cut to the decimal scale),
\* and the deviation is the square root of the squared distances from the
\* mean summed and divided by n, to within one unit of the last decimal place.
C14_MeanAndPopulationDeviation ==
    consensus.stage = "returned" =>
       LET m == consensus.prices
           r == consensus.result
       IN  \A base \in Bases :
              ReportCount(m, base) >= 3 =>
                 LET n == ReportCount(m, base)
                     mean == r.means[base]
                     dev == r.deviations[base]
                     low == IF dev > 1 THEN dev - 1 ELSE 0
                     high == dev + 1
                 IN  /\ mean * n <= PriceSum(m, base)
                     /\ PriceSum(m, base) < (mean + 1) * n
                     /\ n * low * low <= SquareSum(m, base, mean)
                     /\ SquareSum(m, base, mean) <= n * high * high

\* three of the four venues report ATOM at 1, 1 and 2: the mean 1.33 is cut,
\* the fourth venue reports LUNA only and is not counted
C14_Witness ==
    /\ consensus.stage = "returned"
    /\ ReportCount(consensus.prices, "ATOM") = 3
    /\ Cardinality(DOMAIN consensus.prices.rows) = 4
    /\ PriceSum(consensus.prices, "ATOM") = 400
    /\ consensus.result.means["ATOM"] = 133
    /\ consensus.result.deviations["ATOM"] = 47

\* the dollar price the identity mapping of p holds for the address of asset
UsdPrice(p, asset) == floatToDec(tokens[p][ToLower(asset.Address)].Price)

\* C15: an iteration that changes the store assigns, for a configured pair
\* whose base and quote the pool lists in either order, the key BASE+QUOTE
\* with the price usd(base) / usd(quote), the volume dayVolumeUsd / usd(base)
\* and the cycle's time.
C15_EntryFollowsConfiguredPair ==
    [][\A p \in Pollers :
          (InLoop(p) /\ tickers' # tickers) =>
             LET pool == poolsResponse[p][idx[p]]
             IN  /\ Len(pool.Assets) >= 2
                 /\ \E cp \in CurrencyPairs :
                       \E b, q \in {1, 2} :
                          /\ b # q
                          /\ ToUpper(pool.Assets[b].Symbol) = cp.Base
                          /\ ToUpper(pool.Assets[q].Symbol) = cp.Quote
                          /\ tickers' =
                                MapPut(tickers, cp.Base \o cp.Quote,
                                       TickerPrice(
                                          Quo(UsdPrice(p, pool.Assets[b]),
                                              UsdPrice(p, pool.Assets[q])),
                                          Quo(floatToDec(pool.Volume),
                                              UsdPrice(p, pool.Assets[b])),
                                          timestamp[p]))]_vars

\* a pool that lists (USDC, LUNA) has been stored as LUNAUSDC at 3 dollars
C15_Witness ==
    \E p \in Pollers :
       /\ pc[p] = "loop"
       /\ idx[p] = 2
       /\ poolsResponse[p][1].Assets[1].Symbol = "USDC"
       /\ written[p] = {"LUNAUSDC"}
       /\ tickers["LUNAUSDC"] = TickerPrice(300, 267, timestamp[p])

\* the last pool of p's response whose iteration assigns k; 0 if there is none
LastPoolFor(p, k) ==
    LET hits == { i \in 1..Len(poolsResponse[p]) :
                    /\ PoolOutcome(tokens[p], poolsResponse[p][i], timestamp[p]).kind = "store"
                    /\ PoolOutcome(tokens[p], poolsResponse[p][i], timestamp[p]).symbol = k }
    IN  IF hits = {} THEN 0 ELSE CHOOSE i \in hits : \A j \in hits : j <= i

\* C16: an entry is assigned only by the goroutine that holds p.mtx; when a
\* cycle returns, the pairs it assigned hold its own entries (its time and
\* the values of its last pool for the pair), whatever other Polls overlap
\* it; and no step removes an entry or lowers its Time.
C16_LastCompletedCycleWins ==
    [][/\ \A k \in DOMAIN tickers :
             k \in DOMAIN tickers' /\ tickers'[k].Time >= tickers[k].Time
       /\ tickers' # tickers => (mtx \in Pollers /\ InLoop(mtx) /\ idx'[mtx] = idx[mtx] + 1)
       /\ \A p \in Pollers :
             (pc[p] = "loop" /\ pc'[p] = "done") =>
                \A k \in written[p] :
                   tickers'[k] = PoolOutcome(tokens[p],
                                             poolsResponse[p][LastPoolFor(p, k)],
                                             timestamp[p]).ticker]_vars

\* two Polls overlapped: one fetched while the other held the lock, and now
\* holds the lock itself and has replaced an entry of the first by a later one
C16_Witness ==
    \E p, q \in Pollers :
       /\ p # q
       /\ pc[p] = "done"
       /\ pc[q] = "loop"
       /\ written[p] = {"LUNAUSDC", "ASTROUSDC"}
       /\ written[q] = {"ASTROUSDC"}
       /\ tickers["LUNAUSDC"].Time = 1
       /\ tickers["ASTROUSDC"].Time = 2

\* the token records the token loop admitted into the identity mapping of p
Admitted(p) == { tokens[p][a] : a \in DOMAIN tokens[p] }

\* p takes a step of its pool loop
LoopStep(p) == InLoop(p) /\ (idx'[p] # idx[p] \/ pc'[p] # pc[p])

\* C17: an iteration over a pool that meets the floor, matches a configured
\* pair in one of the two orderings and whose two asset addresses are
\* addresses of admitted token records assigns the pair's entry.
C17_AcceptanceComplete ==
    [][\A p \in Pollers :
          LoopStep(p) =>
             LET pool == poolsResponse[p][idx[p]]
             IN  (/\ pool.Liquidity >= 100000
                  /\ Len(pool.Assets) >= 2
                  /\ \E cp \in CurrencyPairs :
                        {ToUpper(pool.Assets[1].Symbol) \o ToUpper(pool.Assets[2].Symbol),
                         ToUpper(pool.Assets[2].Symbol) \o ToUpper(pool.Assets[1].Symbol)}
                           \cap {cp.Base \o cp.Quote} # {}
                  /\ \A i \in {1, 2} :
                        \E token \in Admitted(p) : token.Address = pool.Assets[i].Address)
                 => \E k \in pairs :
                       /\ k \in written'[p]
                       /\ k \in DOMAIN tickers'
                       /\ tickers'[k].Time = timestamp[p]]_vars

\* C18: every key of the store is the key of a configured pair; an
\* iteration over a pool whose symbols match no configured pair in either
\* ordering leaves the store as it was; and a cycle that assigned nothing
\* returns nil with the store as the cycle before left it.
C18_OnlyConfiguredKeys ==
    [][/\ DOMAIN tickers' \subseteq { cp.Base \o cp.Quote : cp \in CurrencyPairs }
       /\ \A p \in Pollers :
             /\ (/\ LoopStep(p)
                 /\ Len(poolsResponse[p][idx[p]].Assets) >= 2
                 /\ \A cp \in CurrencyPairs :
                       LET a1 == ToUpper(poolsResponse[p][idx[p]].Assets[1].Symbol)
                           a2 == ToUpper(poolsResponse[p][idx[p]].Assets[2].Symbol)
                       IN  a1 \o a2 # cp.Base \o cp.Quote /\ a2 \o a1 # cp.Base \o cp.Quote)
                => (tickers' = tickers /\ written' = written /\ ~crashed')
             /\ (pc[p] = "loop" /\ pc'[p] # pc[p] /\ written[p] = {})
                => (pc'[p] = "done" /\ tickers' = boundary)]_vars

\* C19: when the loop of a cycle is over, every pair the cycle assigned
\* holds the entry computed from the last pool of the response that resolves
\* to the pair, and from that pool alone.
C19_LastPoolOfPairWins ==
    \A p \in Pollers :
       (pc[p] = "loop" /\ idx[p] > Len(poolsResponse[p])) =>
          \A k \in written[p] :
             /\ LastPoolFor(p, k) > 0
             /\ tickers[k] = PoolOutcome(tokens[p], poolsResponse[p][LastPoolFor(p, k)],
                                         timestamp[p]).ticker

\* two LUNA/USDC pools with day volumes of 8 and of 6 dollars were listed in
\* that order, and the entry holds the volume of the second alone
C19_Witness ==
    \E p \in Pollers :
       /\ pc[p] = "loop"
       /\ idx[p] = 3
       /\ poolsResponse[p][1].Volume = 8
       /\ poolsResponse[p][2].Volume = 6
       /\ written[p] = {"LUNAUSDC"}
       /\ tickers["LUNAUSDC"].Volume = 200

====
